---- MODULE Spec2Model ----
(***************************************************************************)
(* Conversation orchestration core of the llm-orchestration-service:       *)
(*   - OrderOrchestrator (app/agents/order_orchestrator.py), the           *)
(*     deterministic order workflow state machine;                         *)
(*   - ContextService.get_workflow_state / save_workflow_state             *)
(*     (app/services/context_service.py), the Redis-backed workflow store; *)
(*   - MultiAgentRouter.process_message and OrchestratorAgent.process      *)
(*     (app/routers/multi_agent_router.py, app/agents/orchestrator.py).    *)
(*                                                                         *)
(* Python values are modelled as follows.  A dict is a function whose      *)
(* domain is the set of keys present.  Every dict value is a sequence of   *)
(* length at most one: None is << >> and a value v is << v >>, so that     *)
(* "key absent" and "key present with value None" stay distinct, as they   *)
(* are for dict.get(key, default).  A str that the code measures or strips *)
(* (the address, the raw user message) is a sequence of one-character      *)
(* strings; a str that the code only compares or copies is a TLA+ string.  *)
(***************************************************************************)
EXTENDS Integers, Sequences, FiniteSets, TLC

VARIABLES
    store,      \* Redis value of key workflow:{conversation_id}: a dict, {} when the key is absent
    pc,         \* per request: "idle", "loaded", "computed"
    loaded,     \* per request: the state returned by get_workflow_state
    handler,    \* per request: the branch of OrderOrchestrator.process the message reached
    result,     \* per request: the dict returned by OrderOrchestrator.process
    calls,      \* per request: the external service calls made by process, in order
    redis,      \* per request: what Redis did on get and on save, and what the caller saw
    resolved,   \* history: id of the product the lookup last resolved and the engine last stored
    rpc,        \* process_message: "idle", "fetched" (history read), "classified" (agent chosen)
    inbound,    \* process_message: its arguments and the conversation history it fetched
    routing,    \* process_message: transaction_in_progress, intent, confidence, agent_to_use
    invoked,    \* process_message: the components the request has called, in order
    response,   \* process_message: the dict returned for the last message
    turns,      \* dialogue: the messages the customer has sent so far
    orders,     \* dialogue: the orders the order service has created so far
    scenario    \* "single": one message at a time; "race": two requests of the conversation
                \* overlap; "router": messages go through MultiAgentRouter.process_message;
                \* "dialogue": a customer who answers each question the engine asks

flowVars == <<store, pc, loaded, handler, result, calls, redis, resolved>>

routerVars == <<rpc, inbound, routing, invoked, response>>

vars == <<flowVars, routerVars, turns, orders, scenario>>

----------------------------------------------------------------------------
(* Python values *)

None == << >>

Some(v) == << v >>

EmptyDict == [k \in {} |-> None]

Has(d, k) == k \in DOMAIN d

\* d.get(k)
Get(d, k) == IF Has(d, k) THEN d[k] ELSE None

\* d.get(k, default)
GetD(d, k, default) == IF Has(d, k) THEN d[k] ELSE Some(default)

\* {**d, **u}
Merge(d, u) == [k \in (DOMAIN d) \cup (DOMAIN u) |-> IF k \in DOMAIN u THEN u[k] ELSE d[k]]

\* truthiness of an optional str given as a TLA+ string
TruthyStr(x) == x # None /\ x[1] # ""

\* truthiness of an optional str given as a character sequence, or of an optional dict
TruthySeq(x) == x # None /\ x[1] # << >>

\* truthiness of an optional bool
TruthyBool(x) == x # None /\ x[1]

\* truthiness of an optional non-empty dict (a service response)
TruthyRec(x) == x # None

\* the characters of a string literal, as a sequence of one-character strings
Chars(str) == [i \in 1..Len(str) |-> SubSeq(str, i, i)]

\* the characters str.strip() and str.split() treat as blank
Whitespace == {" ", "\n", "\t"}

RECURSIVE LStrip(_)
LStrip(s) == IF s # << >> /\ Head(s) \in Whitespace THEN LStrip(Tail(s)) ELSE s

RECURSIVE RStrip(_)
RStrip(s) ==
    IF s # << >> /\ s[Len(s)] \in Whitespace THEN RStrip(SubSeq(s, 1, Len(s) - 1)) ELSE s

\* str.strip()
Strip(s) == RStrip(LStrip(s))

----------------------------------------------------------------------------
(* OrderState *)

INIT == "init"

AWAITING_NAME == "awaiting_name"

AWAITING_PRODUCT == "awaiting_product"

AWAITING_DELIVERY_METHOD == "awaiting_delivery_method"

AWAITING_ADDRESS == "awaiting_address"

AWAITING_CONFIRMATION == "awaiting_confirmation"

COMPLETED == "completed"

FAILED == "failed"

----------------------------------------------------------------------------
(* External collaborators.  What a service answers is an input of the      *)
(* step (ext); the code's own handling of the answer is modelled below.    *)

\* context built for the handler: the request's identifiers
Context ==
    [customer_phone |-> "081234567890", tenant_id |-> "T1",
     outlet_id |-> "OUT1", conversation_id |-> "CONV1"]

\* the record the tenant service holds for this phone
KnownCustomer == [id |-> Some("C1"), customer_name |-> Some(<<"a", "a", "a">>)]

ProductSawi == [id |-> Some("P1"), name |-> Some("Kimchi Sawi"), price |-> Some(25000)]

ProductLobak == [id |-> Some("P2"), name |-> Some("Kimchi Lobak"), price |-> Some(30000)]

\* the order service's answer to a successful POST /orders
CreatedOrder == [id |-> Some("O1"), order_number |-> Some("ORD-001")]

\* the tenant service's product search: the JSON it answers for a name
SearchService(product_name) ==
    CASE product_name = "kimchi sawi" ->
            [exact_match |-> Some(TRUE), product |-> Some(ProductSawi),
             suggestions |-> Some(<< >>), message |-> Some("")]
      [] product_name = "kimchi lobak" ->
            [exact_match |-> Some(TRUE), product |-> Some(ProductLobak),
             suggestions |-> Some(<< >>), message |-> Some("")]
      [] OTHER ->
            [exact_match |-> Some(FALSE), product |-> None,
             suggestions |-> Some(<<ProductSawi, ProductLobak>>),
             message |-> Some("Produk tidak ditemukan")]

\* outcomes of the four HTTP calls of one process() call, all of them succeeding
ExtOk == [get_customer |-> "found", search_product |-> "ok",
          create_customer |-> "ok", create_order |-> "ok"]

\* _get_customer: None on 404, on an empty body and on any exception ("not_found" is all three)
GetCustomer(phone, tenant_id, ext) ==
    IF ext.get_customer = "found" THEN Some(KnownCustomer) ELSE None

\* _search_product: the service's JSON, or the fixed no-match dict on any exception
SearchProduct(product_name, outlet_id, tenant_id, ext) ==
    IF ext.search_product = "ok"
    THEN SearchService(product_name)
    ELSE [exact_match |-> Some(FALSE), product |-> None,
          suggestions |-> Some(<< >>), message |-> Some("Gagal mencari produk")]

\* _create_order: the created order, or None on any exception (timeout included)
CreateOrder(order_data, tenant_id, ext) ==
    IF ext.create_order = "ok" THEN Some(CreatedOrder) ELSE None

\* _create_customer: the created customer, or None on any exception
CreateCustomer(name, phone, tenant_id, ext) ==
    IF ext.create_customer = "ok"
    THEN Some([id |-> Some("C1"), customer_name |-> Some(name)])
    ELSE None

\* one entry of the call log
Call(fn, args, ok) == [fn |-> fn, args |-> args, ok |-> ok]

----------------------------------------------------------------------------
(* OrderOrchestrator *)

\* a returned result dict, with the calls made on the way
Ret(action, data, new_state, error, log) ==
    [raised |-> FALSE, action |-> action, data |-> data, new_state |-> new_state,
     error |-> error, calls |-> log]

\* an exception escaping a handler, with the calls made before it
Raise(exc, log) ==
    [raised |-> TRUE, action |-> "", data |-> EmptyDict, new_state |-> EmptyDict,
     error |-> exc, calls |-> log]

\* float(product.get("price", 0)) for product = state.get("product", {})
PriceOf(product) == IF product # None /\ Has(product[1], "price") THEN product[1].price[1] ELSE 0

\* _handle_name_provided
HandleNameProvided(user_message, context, state, ext) ==
    LET customer_name == Strip(user_message)
        customer == CreateCustomer(customer_name, context.customer_phone, context.tenant_id, ext)
        log == << Call("create_customer", [customer_name |-> Some(customer_name)], customer # None) >>
        product == GetD(state, "product", EmptyDict)
        quantity == GetD(state, "quantity", 1)
        delivery_method == Get(state, "delivery_method")
        \* the default of state.get("total_price", ...) is evaluated before the lookup
        total_price == GetD(state, "total_price", PriceOf(Get(state, "product")) * quantity[1])
    IN  IF Len(customer_name) < 3
        THEN Ret("SHOW_ERROR", EmptyDict, state, Some("Name too short"), << >>)
        ELSE IF ~TruthyRec(customer)
        THEN Ret("SHOW_ERROR", EmptyDict, state, Some("Failed to create customer"), log)
        ELSE IF quantity = None
        THEN Raise("TypeError", log)
        ELSE IF TruthyStr(delivery_method)
        THEN IF delivery_method = Some("pickup")
             THEN Ret("ASK_CONFIRMATION",
                      [quantity |-> quantity, total_price |-> total_price,
                       delivery_method |-> Some("pickup"), address |-> None],
                      Merge(state, [customer |-> customer,
                                    current_step |-> Some(AWAITING_CONFIRMATION)]),
                      None, log)
             ELSE Ret("ASK_ADDRESS",
                      [quantity |-> quantity, total_price |-> total_price],
                      Merge(state, [customer |-> customer,
                                    current_step |-> Some(AWAITING_ADDRESS)]),
                      None, log)
        ELSE Ret("ASK_DELIVERY_METHOD",
                 [quantity |-> quantity, total_price |-> total_price],
                 Merge(state, [customer |-> customer,
                               current_step |-> Some(AWAITING_DELIVERY_METHOD)]),
                 None, log)

\* a slip: a failed lookup restarts the workflow
ProductNotFoundResets(product_name, product_result, state, log) ==
    Ret("SHOW_PRODUCT_NOT_FOUND",
        [product_name |-> product_name,
         suggestions |-> GetD(product_result, "suggestions", << >>),
         message |-> GetD(product_result, "message", "")],
        [current_step |-> Some(AWAITING_PRODUCT)], None, log)

\* _handle_new_order when the lookup has no exact match
ProductNotFound(product_name, product_result, state, log) ==
    Ret("SHOW_PRODUCT_NOT_FOUND",
        [product_name |-> product_name,
         suggestions |-> GetD(product_result, "suggestions", << >>),
         message |-> GetD(product_result, "message", "")],
        state, None, log)

\* a slip: the unit price is taken as the total
NewOrderTotalUnitPrice(product, quantity) == product[1].price[1]

\* float(product["price"]) * quantity of _handle_new_order
NewOrderTotal(product, quantity) == product[1].price[1] * quantity[1]

\* _handle_new_order
HandleNewOrder(entities, context, state, ext) ==
    LET product_name == Get(entities, "product_name")
        quantity == GetD(entities, "quantity", 1)
        customer == GetCustomer(context.customer_phone, context.tenant_id, ext)
        product_result == SearchProduct(product_name[1], context.outlet_id, context.tenant_id, ext)
        log == << Call("get_customer", EmptyDict, customer # None),
                  Call("search_product", [name |-> product_name],
                       TruthyBool(Get(product_result, "exact_match"))) >>
        product == product_result.product
        delivery_method == Get(entities, "delivery_method")
        total == NewOrderTotal(product, quantity)
        found == [product |-> product, quantity |-> quantity, product_name |-> product_name]
    IN  IF ~TruthyStr(product_name)
        THEN Ret("SHOW_ERROR", EmptyDict, state, Some("No product_name in entities"), << >>)
        ELSE IF ~TruthyBool(Get(product_result, "exact_match"))
        THEN ProductNotFound(product_name, product_result, state, log)
        ELSE IF ~TruthyRec(customer)
        THEN Ret("ASK_NAME", EmptyDict,
                 Merge(Merge(state, found @@ [current_step |-> Some(AWAITING_NAME)]),
                       IF TruthyStr(delivery_method)
                       THEN [delivery_method |-> delivery_method]
                       ELSE EmptyDict),
                 None, log)
        ELSE IF quantity = None
        THEN Raise("TypeError", log)
        ELSE IF TruthyStr(delivery_method)
        THEN IF delivery_method = Some("pickup")
             THEN Ret("ASK_CONFIRMATION",
                      [quantity |-> quantity, total_price |-> Some(total),
                       delivery_method |-> delivery_method, address |-> None],
                      Merge(state, found @@
                            [customer |-> customer, delivery_method |-> delivery_method,
                             total_price |-> Some(total),
                             current_step |-> Some(AWAITING_CONFIRMATION)]),
                      None, log)
             ELSE Ret("ASK_ADDRESS",
                      [quantity |-> quantity, total_price |-> Some(total)],
                      Merge(state, found @@
                            [customer |-> customer, delivery_method |-> delivery_method,
                             total_price |-> Some(total),
                             current_step |-> Some(AWAITING_ADDRESS)]),
                      None, log)
        ELSE Ret("ASK_DELIVERY_METHOD",
                 [quantity |-> quantity, total_price |-> Some(total)],
                 Merge(state, found @@
                       [customer |-> customer, total_price |-> Some(total),
                        current_step |-> Some(AWAITING_DELIVERY_METHOD)]),
                 None, log)

\* a slip: the quantity sent with the delivery method is ignored
UpdatedQuantityFromState(entities, state) == GetD(state, "quantity", 1)

\* updated_quantity of _handle_delivery_method: the entity if given, else the stored one
UpdatedQuantity(entities, state) ==
    LET quantity == Get(entities, "quantity")
    IN  IF quantity # None THEN quantity ELSE GetD(state, "quantity", 1)

\* a slip: the step stays where the delivery method was asked
StepAfterDeliveryMethodStays(delivery_method) ==
    IF delivery_method = Some("delivery")
    THEN Some(AWAITING_ADDRESS)
    ELSE Some(AWAITING_DELIVERY_METHOD)

\* the step _handle_delivery_method moves a known customer's order to
StepAfterDeliveryMethod(delivery_method) ==
    IF delivery_method = Some("delivery")
    THEN Some(AWAITING_ADDRESS)
    ELSE Some(AWAITING_CONFIRMATION)

\* _handle_delivery_method
HandleDeliveryMethod(entities, context, state, ext) ==
    LET delivery_method == Get(entities, "delivery_method")
        updated_quantity == UpdatedQuantity(entities, state)
        product_price == PriceOf(Get(state, "product"))
        updated_total_price == product_price * updated_quantity[1]
        customer == Get(state, "customer")
        saved == [delivery_method |-> delivery_method, quantity |-> updated_quantity,
                  total_price |-> Some(updated_total_price)]
    IN  IF ~TruthyStr(delivery_method)
        THEN Ret("SHOW_ERROR", EmptyDict, state, Some("No delivery_method in entities"), << >>)
        ELSE IF updated_quantity = None
        THEN Raise("TypeError", << >>)
        ELSE IF ~TruthyRec(customer)
        THEN Ret("ASK_NAME",
                 [quantity |-> updated_quantity, delivery_method |-> delivery_method],
                 Merge(state, saved @@ [current_step |-> Some(AWAITING_NAME)]),
                 None, << >>)
        ELSE LET new_state ==
                    Merge(state, saved @@
                          [current_step |-> StepAfterDeliveryMethod(delivery_method)])
             IN  IF delivery_method = Some("pickup")
                 THEN Ret("ASK_CONFIRMATION",
                          [quantity |-> updated_quantity,
                           total_price |-> Some(updated_total_price),
                           delivery_method |-> Some("pickup"), address |-> None],
                          new_state, None, << >>)
                 ELSE Ret("ASK_ADDRESS", EmptyDict, new_state, None, << >>)

\* a slip: an address of exactly 10 characters is refused
AddressRejectedAtTen(address) == ~TruthySeq(address) \/ Len(address[1]) <= 10

\* the validation of _handle_address: not address or len(address) < 10
AddressRejected(address) == ~TruthySeq(address) \/ Len(address[1]) < 10

\* _handle_address
HandleAddress(entities, context, state, ext) ==
    LET address == Get(entities, "address")
    IN  IF AddressRejected(address)
        THEN Ret("SHOW_ERROR", EmptyDict, state, Some("Address too short"), << >>)
        ELSE IF GetD(state, "quantity", 1) = None
        THEN Raise("TypeError", << >>)
        ELSE Ret("ASK_CONFIRMATION",
                 [quantity |-> GetD(state, "quantity", 1),
                  total_price |-> Some(PriceOf(Get(state, "product"))
                                       * GetD(state, "quantity", 1)[1]),
                  delivery_method |-> Some("delivery"), address |-> address],
                 Merge(state, [address |-> address,
                               current_step |-> Some(AWAITING_CONFIRMATION)]),
                 None, << >>)

\* a slip: the product's name is sent where its id belongs
OrderDataByName(context, state) ==
    [customer_phone |-> Some(context.customer_phone),
     customer_name |-> IF Has(state, "customer")
                       THEN GetD(state.customer[1], "customer_name", << >>)
                       ELSE Some(<< >>),
     customer_address |-> GetD(state, "address", << >>),
     items |-> << [product_id |-> state.product[1].name,
                   quantity |-> GetD(state, "quantity", 1)] >>,
     fulfillment_type |-> GetD(state, "delivery_method", "pickup"),
     notes |-> Some(""),
     conversation_id |-> Some(context.conversation_id)]

\* the order_data dict built by _handle_confirmation
OrderData(context, state) ==
    [customer_phone |-> Some(context.customer_phone),
     customer_name |-> IF Has(state, "customer")
                       THEN GetD(state.customer[1], "customer_name", << >>)
                       ELSE Some(<< >>),
     customer_address |-> GetD(state, "address", << >>),
     items |-> << [product_id |-> state.product[1].id,
                   quantity |-> GetD(state, "quantity", 1)] >>,
     fulfillment_type |-> GetD(state, "delivery_method", "pickup"),
     notes |-> Some(""),
     conversation_id |-> Some(context.conversation_id)]

\* a slip: a failed order creation marks the workflow FAILED and drops what was collected
OrderFailedMarksFailed(state, log) ==
    Ret("SHOW_ERROR", EmptyDict, [current_step |-> Some(FAILED)],
        Some("Failed to create order"), log)

\* _handle_confirmation when _create_order returned None
OrderFailed(state, log) ==
    Ret("SHOW_ERROR", EmptyDict, state, Some("Failed to create order"), log)

\* a slip: the COMPLETED state keeps the collected fields
OrderCreatedKeepsState(state, order, log) ==
    IF GetD(state, "quantity", 1) = None
    THEN Raise("TypeError", log)
    ELSE Ret("SHOW_ORDER_SUCCESS",
             [order_id |-> Get(order[1], "order_number"),
              quantity |-> GetD(state, "quantity", 1),
              total_price |-> Some(PriceOf(Get(state, "product"))
                                   * GetD(state, "quantity", 1)[1]),
              delivery_method |-> GetD(state, "delivery_method", "pickup")],
             Merge(state, [current_step |-> Some(COMPLETED), order |-> order]),
             None, log)

\* _handle_confirmation when the order was created
OrderCreated(state, order, log) ==
    IF GetD(state, "quantity", 1) = None
    THEN Raise("TypeError", log)
    ELSE Ret("SHOW_ORDER_SUCCESS",
             [order_id |-> Get(order[1], "order_number"),
              quantity |-> GetD(state, "quantity", 1),
              total_price |-> Some(PriceOf(Get(state, "product"))
                                   * GetD(state, "quantity", 1)[1]),
              delivery_method |-> GetD(state, "delivery_method", "pickup")],
             [current_step |-> Some(COMPLETED), order |-> order],
             None, log)

\* _handle_confirmation
HandleConfirmation(entities, context, state, ext) ==
    LET confirmation == Get(entities, "confirmation")
        product == GetD(state, "product", EmptyDict)
        order_data == OrderData(context, state)
        order == CreateOrder(order_data, context.tenant_id, ext)
        log == << Call("create_order", order_data, order # None) >>
    IN  IF ~TruthyBool(confirmation)
        THEN Ret("SHOW_ERROR", EmptyDict, [current_step |-> Some(INIT)],
                 Some("Order cancelled by customer"), << >>)
        ELSE IF ~Has(product[1], "id")
        THEN Raise("KeyError", << >>)
        ELSE IF ~TruthyRec(order)
        THEN OrderFailed(state, log)
        ELSE OrderCreated(state, order, log)

\* the dispatch of OrderOrchestrator.process: the handler that a message reaches
Route(intent_data, state) ==
    LET sub_intent == Get(intent_data, "sub_intent")
        entities == IF Has(intent_data, "entities") THEN intent_data.entities[1] ELSE EmptyDict
        current_step == Get(state, "current_step")
        has_quantity == Get(entities, "quantity") # None
        has_delivery == Get(entities, "delivery_method") # None
    IN  IF current_step = Some(AWAITING_NAME)
        THEN IF has_quantity \/ has_delivery
             THEN "_handle_delivery_method"
             ELSE "_handle_name_provided"
        ELSE IF sub_intent = Some("WANT_TO_ORDER") THEN "ASK_PRODUCT"
        ELSE IF sub_intent = Some("NEW_ORDER") THEN "_handle_new_order"
        ELSE IF sub_intent = Some("PROVIDE_DELIVERY_METHOD") THEN "_handle_delivery_method"
        ELSE IF sub_intent = Some("PROVIDE_ADDRESS") THEN "_handle_address"
        ELSE IF sub_intent = Some("CONFIRM_ORDER") THEN "_handle_confirmation"
        ELSE "unknown"

\* a slip: an unrecognised message starts the workflow over
UnknownSubIntentResets(state) ==
    Ret("SHOW_ERROR", EmptyDict, [current_step |-> Some(INIT)], Some("Unknown sub_intent"), << >>)

\* process when no branch takes the sub_intent
UnknownSubIntent(state) ==
    Ret("SHOW_ERROR", EmptyDict, state, Some("Unknown sub_intent"), << >>)

\* a slip: process without its except branch
ProcessUnguarded(intent_data, context, state, user_message, ext) ==
    LET entities == IF Has(intent_data, "entities") THEN intent_data.entities[1] ELSE EmptyDict
        branch == Route(intent_data, state)
    IN  CASE branch = "_handle_name_provided" ->
                HandleNameProvided(user_message, context, state, ext)
           [] branch = "ASK_PRODUCT" ->
                Ret("ASK_PRODUCT", EmptyDict, state, None, << >>)
           [] branch = "_handle_new_order" ->
                HandleNewOrder(entities, context, state, ext)
           [] branch = "_handle_delivery_method" ->
                HandleDeliveryMethod(entities, context, state, ext)
           [] branch = "_handle_address" ->
                HandleAddress(entities, context, state, ext)
           [] branch = "_handle_confirmation" ->
                HandleConfirmation(entities, context, state, ext)
           [] OTHER -> UnknownSubIntent(state)

\* OrderOrchestrator.process
Process(intent_data, context, state, user_message, ext) ==
    LET entities == IF Has(intent_data, "entities") THEN intent_data.entities[1] ELSE EmptyDict
        branch == Route(intent_data, state)
        r == CASE branch = "_handle_name_provided" ->
                    HandleNameProvided(user_message, context, state, ext)
               [] branch = "ASK_PRODUCT" ->
                    Ret("ASK_PRODUCT", EmptyDict, state, None, << >>)
               [] branch = "_handle_new_order" ->
                    HandleNewOrder(entities, context, state, ext)
               [] branch = "_handle_delivery_method" ->
                    HandleDeliveryMethod(entities, context, state, ext)
               [] branch = "_handle_address" ->
                    HandleAddress(entities, context, state, ext)
               [] branch = "_handle_confirmation" ->
                    HandleConfirmation(entities, context, state, ext)
               [] OTHER -> UnknownSubIntent(state)
    IN  IF r.raised
        THEN Ret("SHOW_ERROR", [error |-> Some(r.error)], state, Some(r.error), r.calls)
        ELSE r

\* the outcomes of the HTTP calls a handler can make (the others are never made)
ExtOutcomes(h) ==
    CASE h = "_handle_new_order" ->
            {[ExtOk EXCEPT !.get_customer = c, !.search_product = p] :
                c \in {"found", "not_found"}, p \in {"ok", "error"}}
      [] h = "_handle_name_provided" ->
            {[ExtOk EXCEPT !.create_customer = c] : c \in {"ok", "error"}}
      [] h = "_handle_confirmation" ->
            {[ExtOk EXCEPT !.create_order = c] : c \in {"ok", "error"}}
      [] OTHER -> {ExtOk}

----------------------------------------------------------------------------
(* ContextService: the workflow state store.  The Redis key holds          *)
(* json.dumps(state); for the dicts of this model (str keys; str, number,  *)
(* bool, None and nested dict values) json.loads(json.dumps(d)) = d, so    *)
(* the stored text is represented by the dict it decodes to.  The key is   *)
(* None when absent.                                                       *)

\* get_workflow_state: the dict handed to the caller, and whether an exception reached the caller
GetWorkflowState(data, fault) ==
    IF fault
    THEN [value |-> EmptyDict, raised |-> FALSE]
    ELSE [value |-> IF data # None THEN data[1] ELSE EmptyDict, raised |-> FALSE]

\* save_workflow_state: the key afterwards, and whether an exception reached the caller
SaveWorkflowState(data, state, fault) ==
    IF fault
    THEN [data |-> data, raised |-> FALSE]
    ELSE IF state = EmptyDict
    THEN [data |-> None, raised |-> FALSE]
    ELSE [data |-> Some(state), raised |-> FALSE]

----------------------------------------------------------------------------
(* Inputs *)

\* largest quantity entity drawn
MaxQuantity == 2

\* longest address entity drawn
MaxAddressLen == 10

\* longest name typed
MaxNameLen == 3

\* an address of n characters
Addr(n) == [i \in 1..n |-> "x"]

\* a name of n letters
Name(n) == [i \in 1..n |-> "a"]

\* entity values the intent detector may extract
ProductNames == {Some("kimchi sawi"), Some("kimchi lobak")}

\* a name the product search does not resolve
UnknownProduct == Some("kimchi")

Quantities == {None} \cup {Some(q) : q \in 0..MaxQuantity}

DeliveryMethods == {None, Some("pickup"), Some("delivery")}

Addresses == {None} \cup {Some(Addr(n)) : n \in {0} \cup (9..MaxAddressLen)}

Confirmations == {None, Some(TRUE), Some(FALSE)}

\* raw texts of a bare reply: 2..MaxNameLen letters, and two letters padded with blanks
Texts == {Name(n) : n \in 2..MaxNameLen} \cup {<<" ">> \o Name(2) \o <<" ">>}

\* raw text of a message that carries entities: read only when it is taken as a name
Sentence == Name(MaxNameLen)

\* the entities dict of the intent detector; the quantity key may be missing
Entities(pn, q, hasq, dm, ad, cf) ==
    LET e == [product_name |-> pn, delivery_method |-> dm, address |-> ad, confirmation |-> cf]
    IN  IF hasq THEN e @@ [quantity |-> q] ELSE e

\* a message: the intent detector's output and the raw text
Message(si, e, text) ==
    [intent_data |-> [sub_intent |-> si, entities |-> Some(e)], user_message |-> text]

\* the quantity entity: missing, null or a number
QuantityKeys == {<<FALSE, None>>} \cup {<<TRUE, q>> : q \in Quantities}

Messages ==
    {Message(Some("UNKNOWN"), Entities(None, None, FALSE, None, None, None), t) : t \in Texts}
    \cup {Message(Some("WANT_TO_ORDER"), Entities(None, None, FALSE, None, None, None), Sentence)}
    \cup {Message(Some("NEW_ORDER"), Entities(pn, q[2], q[1], dm, None, None), Sentence) :
            pn \in ProductNames, q \in QuantityKeys, dm \in DeliveryMethods}
    \cup {Message(Some("NEW_ORDER"), Entities(pn, Some(MaxQuantity), TRUE, None, None, None), Sentence) :
            pn \in {None, UnknownProduct}}
    \cup {Message(Some("PROVIDE_DELIVERY_METHOD"), Entities(None, q[2], q[1], dm, None, None), Sentence) :
            q \in QuantityKeys, dm \in DeliveryMethods}
    \cup {Message(Some("PROVIDE_ADDRESS"), Entities(None, None, FALSE, None, ad, None), Sentence) :
            ad \in Addresses}
    \cup {Message(Some("CONFIRM_ORDER"), Entities(None, None, FALSE, None, None, cf), t) :
            cf \in Confirmations, t \in {Name(2), Sentence}}

\* messages that carry several order entities at once
CombinedMessages ==
    {Message(Some("NEW_ORDER"),
             Entities(Some("kimchi sawi"), Some(MaxQuantity), TRUE, Some("delivery"),
                      Some(Addr(MaxAddressLen)), None), Sentence),
     Message(Some("PROVIDE_ADDRESS"),
             Entities(None, Some(MaxQuantity), TRUE, None, Some(Addr(MaxAddressLen)), None),
             Sentence)}

\* messages whose sub_intent is missing or is none of those the engine knows
UnmatchedMessages ==
    {Message(si, Entities(pn, Some(MaxQuantity), TRUE, None, None, Some(TRUE)), Sentence) :
        si \in {None, Some("CANCEL_ORDER")}, pn \in {None, Some("kimchi sawi")}}

\* most messages a dialogue is followed for
MaxTurns == 6

\* the valid answers to the question a state stands for: an order of a product
\* the search resolves when nothing was asked yet, a name of at least 3
\* letters, a delivery method, an address of at least 10 characters, a yes
Answers(state) ==
    LET current_step == Get(state, "current_step")
    IN  CASE current_step \in {None, Some(INIT)} ->
                {Message(Some("NEW_ORDER"), Entities(pn, q[2], q[1], dm, None, None), Sentence) :
                    pn \in ProductNames,
                    q \in {<<FALSE, None>>} \cup {<<TRUE, Some(n)>> : n \in 1..MaxQuantity},
                    dm \in DeliveryMethods}
          [] current_step = Some(AWAITING_NAME) ->
                {Message(Some("UNKNOWN"), Entities(None, None, FALSE, None, None, None),
                         Name(MaxNameLen))}
          [] current_step = Some(AWAITING_DELIVERY_METHOD) ->
                {Message(Some("PROVIDE_DELIVERY_METHOD"),
                         Entities(None, None, FALSE, dm, None, None), Sentence) :
                    dm \in {Some("pickup"), Some("delivery")}}
          [] current_step = Some(AWAITING_ADDRESS) ->
                {Message(Some("PROVIDE_ADDRESS"),
                         Entities(None, None, FALSE, None, Some(Addr(MaxAddressLen)), None),
                         Sentence)}
          [] current_step = Some(AWAITING_CONFIRMATION) ->
                {Message(Some("CONFIRM_ORDER"),
                         Entities(None, None, FALSE, None, None, Some(TRUE)), Sentence)}
          [] OTHER -> {}

\* the messages of one delivery order, start to finish
RaceMessages ==
    {Message(Some("NEW_ORDER"),
             Entities(Some("kimchi sawi"), Some(2), TRUE, None, None, None), Sentence),
     Message(Some("PROVIDE_DELIVERY_METHOD"),
             Entities(None, None, FALSE, Some("delivery"), None, None), Sentence),
     Message(Some("PROVIDE_ADDRESS"),
             Entities(None, None, FALSE, None, Some(Addr(MaxAddressLen)), None), Sentence),
     Message(Some("CONFIRM_ORDER"),
             Entities(None, None, FALSE, None, None, Some(TRUE)), Sentence)}

----------------------------------------------------------------------------
(* Requests.  Each request is one inbound message of the conversation:     *)
(* load the workflow state, run the engine on it, persist what the engine  *)
(* returns.                                                                *)

Requests == {1, 2}

\* the requests that run
Active == IF scenario = "race" THEN Requests
          ELSE IF scenario \in {"single", "dialogue"} THEN {1} ELSE {}

\* the messages that arrive
Inbox == IF scenario = "race" THEN RaceMessages
         ELSE IF scenario = "dialogue" THEN Answers(loaded[1]) ELSE Messages

\* what the services answer: anything, or in the race every call succeeds
Outcomes(h) == IF scenario = "race" THEN {ExtOk}
               ELSE IF scenario = "dialogue"
               THEN \* every call succeeds; the first lookup finds the customer or finds none
                    IF h = "_handle_new_order"
                    THEN {[ExtOk EXCEPT !.get_customer = c] : c \in {"found", "not_found"}}
                    ELSE {ExtOk}
               ELSE ExtOutcomes(h)

\* whether Redis fails on a call: it may, or in the race it does not
Faults == IF scenario \in {"race", "dialogue"} THEN {FALSE} ELSE BOOLEAN

NoResult == [raised |-> FALSE, action |-> "", data |-> EmptyDict, new_state |-> EmptyDict,
             error |-> None]

NoRedis == [get |-> "", save |-> "", raised |-> FALSE]

\* process_message before its first message
NoInbound == [user_message |-> << >>, outlet_id |-> None, conversation_history |-> << >>]

NoRouting == [transaction_in_progress |-> FALSE, intent |-> "", confidence |-> 0,
              agent_to_use |-> None, reason |-> None]

NoResponse == EmptyDict

InitCommon ==
    /\ store = None
    /\ pc = [w \in Requests |-> "idle"]
    /\ loaded = [w \in Requests |-> EmptyDict]
    /\ handler = [w \in Requests |-> ""]
    /\ result = [w \in Requests |-> NoResult]
    /\ calls = [w \in Requests |-> << >>]
    /\ redis = [w \in Requests |-> NoRedis]
    /\ resolved = None
    /\ rpc = "idle"
    /\ inbound = NoInbound
    /\ routing = NoRouting
    /\ invoked = << >>
    /\ response = NoResponse
    /\ turns = 0
    /\ orders = 0

\* one message at a time
Init == InitCommon /\ scenario = "single"

\* two overlapping requests of the same conversation
InitRace == InitCommon /\ scenario = "race"

\* step 2 of the router: load the workflow state of the conversation
Load(w) ==
    /\ w \in Active
    /\ pc[w] = "idle"
    /\ scenario = "dialogue" => Answers(GetWorkflowState(store, FALSE).value) # {}
    /\ \E fault \in Faults :
         LET g == GetWorkflowState(store, fault)
         IN  /\ loaded' = [loaded EXCEPT ![w] = g.value]
             /\ redis' = [redis EXCEPT ![w] = [get |-> IF fault THEN "error" ELSE "ok",
                                               save |-> "", raised |-> g.raised]]
    /\ pc' = [pc EXCEPT ![w] = "loaded"]
    /\ UNCHANGED <<store, handler, result, calls, resolved, routerVars, turns, orders, scenario>>

\* dispatch to the engine: OrderOrchestrator.process on the loaded state
Engine(w) ==
    /\ w \in Active
    /\ pc[w] = "loaded"
    /\ \E m \in Inbox :
         \E ext \in Outcomes(Route(m.intent_data, loaded[w])) :
            LET r == Process(m.intent_data, Context, loaded[w], m.user_message, ext)
            IN  /\ handler' = [handler EXCEPT ![w] = Route(m.intent_data, loaded[w])]
                /\ result' = [result EXCEPT ![w] =
                                [raised |-> r.raised, action |-> r.action, data |-> r.data,
                                 new_state |-> r.new_state, error |-> r.error]]
                /\ calls' = [calls EXCEPT ![w] = r.calls]
                /\ orders' = IF scenario = "dialogue"
                             THEN orders + Cardinality({i \in DOMAIN r.calls :
                                              r.calls[i].fn = "create_order" /\ r.calls[i].ok})
                             ELSE orders
    /\ pc' = [pc EXCEPT ![w] = "computed"]
    /\ scenario = "dialogue" => turns < MaxTurns
    /\ turns' = IF scenario = "dialogue" THEN turns + 1 ELSE turns
    /\ UNCHANGED <<store, loaded, redis, resolved, routerVars>>
    /\ UNCHANGED scenario

\* the product a request resolved through the lookup and put into the state it returns, if any
Resolution(w) ==
    LET hits == {i \in DOMAIN calls[w] : calls[w][i].fn = "search_product" /\ calls[w][i].ok}
    IN  IF hits # {} /\ Has(result[w].new_state, "product")
           /\ \E i \in hits :
                 result[w].new_state.product = SearchService(calls[w][i].args.name[1]).product
        THEN result[w].new_state.product[1].id
        ELSE None

\* step 5 of the router: persist the new state the engine returned; the request is over
Save(w) ==
    /\ w \in Active
    /\ pc[w] = "computed"
    /\ \E fault \in Faults :
         LET s == SaveWorkflowState(store, result[w].new_state, fault)
         IN  /\ store' = s.data
             /\ redis' = [redis EXCEPT ![w].save = IF fault THEN "error" ELSE "ok",
                                       ![w].raised = redis[w].raised \/ s.raised]
             /\ resolved' = IF ~fault /\ Resolution(w) # None THEN Resolution(w) ELSE resolved
    /\ pc' = [pc EXCEPT ![w] = "idle"]
    /\ loaded' = [loaded EXCEPT ![w] = EmptyDict]
    /\ handler' = [handler EXCEPT ![w] = ""]
    /\ result' = [result EXCEPT ![w] = NoResult]
    /\ calls' = [calls EXCEPT ![w] = << >>]
    /\ UNCHANGED <<routerVars, turns, orders, scenario>>

\* the key's one-hour expiry elapses (between requests: a request lasts seconds)
Expire ==
    /\ scenario # "dialogue"
    /\ \A w \in Requests : pc[w] = "idle"
    /\ store # None
    /\ store' = None
    /\ UNCHANGED <<pc, loaded, handler, result, calls, redis, resolved, routerVars, turns, orders, scenario>>

Next ==
    \/ \E w \in Requests : Load(w)
    \/ \E w \in Requests : Engine(w)
    \/ \E w \in Requests : Save(w)
    \/ Expire

Spec == Init /\ [][Next]_vars

SpecRace == InitRace /\ [][Next]_vars

\* a customer who answers every question, all services up, within the hour of the key
InitDialogue == InitCommon /\ scenario = "dialogue"

NextDialogue ==
    \/ \E w \in Requests : Load(w)
    \/ \E w \in Requests : Engine(w)
    \/ \E w \in Requests : Save(w)

\* every message is handled to its end
SpecDialogue == InitDialogue /\ [][NextDialogue]_vars /\ WF_vars(NextDialogue)

TypeOK == pc \in [Requests -> {"idle", "loaded", "computed"}]

----------------------------------------------------------------------------
(* Text matching.  A regular expression is a tree: a literal, a bounded or  *)
(* unbounded repetition of a character class, a concatenation, an           *)
(* alternative, an optional part.                                           *)

UpperCase == Chars("ABCDEFGHIJKLMNOPQRSTUVWXYZ")

LowerCase == Chars("abcdefghijklmnopqrstuvwxyz")

\* ch.isupper()
IsUpper(ch) == \E i \in DOMAIN UpperCase : UpperCase[i] = ch

Lower(ch) ==
    IF IsUpper(ch)
    THEN LowerCase[CHOOSE i \in DOMAIN UpperCase : UpperCase[i] = ch]
    ELSE ch

\* s.lower()
LowerStr(s) == [i \in 1..Len(s) |-> Lower(s[i])]

\* ch.isdigit(), \d, [0-9]
Digit == {"0", "1", "2", "3", "4", "5", "6", "7", "8", "9"}

\* sub in s
Contains(s, sub) ==
    \E i \in 1..(Len(s) - Len(sub) + 1) : SubSeq(s, i, i + Len(sub) - 1) = sub

\* s.startswith(prefix)
StartsWith(s, prefix) == Len(prefix) <= Len(s) /\ SubSeq(s, 1, Len(prefix)) = prefix

\* s.replace(ch, '')
Without(s, ch) == SelectSeq(s, LAMBDA c : c # ch)

RECURSIVE SplitOn(_, _)
\* s.split(sep) for a one-character separator
SplitOn(s, sep) ==
    IF \E i \in 1..Len(s) : s[i] = sep
    THEN LET i == CHOOSE i \in 1..Len(s) : s[i] = sep /\ \A j \in 1..(i - 1) : s[j] # sep
         IN  << SubSeq(s, 1, i - 1) >> \o SplitOn(SubSeq(s, i + 1, Len(s)), sep)
    ELSE << s >>

RECURSIVE Words(_)
\* s.split(): the maximal runs of non-blank characters
Words(s) ==
    LET t == LStrip(s)
    IN  IF t = << >>
        THEN << >>
        ELSE LET n == CHOOSE n \in 1..Len(t) :
                         /\ \A j \in 1..n : t[j] \notin Whitespace
                         /\ n = Len(t) \/ t[n + 1] \in Whitespace
             IN  << SubSeq(t, 1, n) >> \o Words(SubSeq(t, n + 1, Len(t)))

Lit(str) == [t |-> "lit", s |-> Chars(str)]

\* class{min,max}; max = -1 when the repetition is unbounded
Rep(class, min, max) == [t |-> "rep", class |-> class, min |-> min, max |-> max]

\* class+
Plus(class) == Rep(class, 1, -1)

\* class*
Star(class) == Rep(class, 0, -1)

\* (a)?
Opt(a) == [t |-> "opt", a |-> a]

RECURSIVE Cat(_)
\* the parts one after the other
Cat(parts) ==
    IF Len(parts) = 1 THEN parts[1] ELSE [t |-> "cat", a |-> parts[1], b |-> Cat(Tail(parts))]

RECURSIVE Alt(_)
\* part | part | ...
Alt(parts) ==
    IF Len(parts) = 1 THEN parts[1] ELSE [t |-> "alt", a |-> parts[1], b |-> Alt(Tail(parts))]

RECURSIVE Ends(_, _, _)
\* the positions just after a match of re that starts at position i of s
Ends(re, s, i) ==
    CASE re.t = "lit" ->
           IF i + Len(re.s) - 1 <= Len(s) /\ SubSeq(s, i, i + Len(re.s) - 1) = re.s
           THEN {i + Len(re.s)}
           ELSE {}
      [] re.t = "rep" ->
           {j \in (i + re.min)..(IF re.max < 0 THEN Len(s) + 1 ELSE i + re.max) :
               j <= Len(s) + 1 /\ \A k \in i..(j - 1) : s[k] \in re.class}
      [] re.t = "cat" -> UNION {Ends(re.b, s, j) : j \in Ends(re.a, s, i)}
      [] re.t = "alt" -> Ends(re.a, s, i) \cup Ends(re.b, s, i)
      [] re.t = "opt" -> {i} \cup Ends(re.a, s, i)

\* re.search(re, s)
Search(re, s) == \E i \in 1..(Len(s) + 1) : Ends(re, s, i) # {}

\* re.match of a pattern written ^...$
FullMatch(re, s) == (Len(s) + 1) \in Ends(re, s, 1)

----------------------------------------------------------------------------
(* OrchestratorAgent (app/agents/orchestrator.py) *)

JAILBREAK_PATTERNS ==
    << Cat(<< Lit("ignore"), Plus(Whitespace),
              Opt(Cat(<< Lit("all"), Plus(Whitespace) >>)),
              Opt(Cat(<< Lit("previous"), Plus(Whitespace) >>)),
              Alt(<< Cat(<< Lit("instruction"), Opt(Lit("s")) >>),
                     Cat(<< Lit("prompt"), Opt(Lit("s")) >>) >>) >>),
       Cat(<< Lit("forget"), Plus(Whitespace),
              Alt(<< Lit("everything"), Lit("all"), Lit("previous") >>) >>),
       Cat(<< Alt(<< Lit("act"), Lit("pretend"), Lit("roleplay") >>), Plus(Whitespace),
              Alt(<< Lit("as"), Cat(<< Lit("to"), Plus(Whitespace), Lit("be") >>) >>) >>),
       Cat(<< Lit("write"), Plus(Whitespace),
              Opt(Cat(<< Lit("a"), Plus(Whitespace) >>)),
              Alt(<< Lit("code"), Lit("script"), Lit("program") >>) >>),
       Cat(<< Lit("you"), Plus(Whitespace), Lit("are"), Plus(Whitespace), Lit("now") >>),
       Cat(<< Lit("new"), Plus(Whitespace), Lit("instruction"), Opt(Lit("s")) >>),
       Cat(<< Lit("system"), Star(Whitespace), Lit(":") >>),
       Cat(<< Lit("assistant"), Star(Whitespace), Lit(":") >>) >>

RECIPE_PATTERNS ==
    << Lit("resep"),
       Cat(<< Lit("cara"), Plus(Whitespace),
              Alt(<< Lit("bikin"), Lit("buat"), Lit("masak") >>) >>),
       Cat(<< Lit("how"), Plus(Whitespace), Lit("to"), Plus(Whitespace),
              Alt(<< Lit("make"), Lit("cook"), Lit("prepare") >>) >>),
       Cat(<< Lit("gimana"), Plus(Whitespace), Alt(<< Lit("bikin"), Lit("buat") >>) >>) >>

\* _security_prefilter
SecurityPrefilter(message) ==
    LET message_lower == LowerStr(message)
    IN  IF \E i \in DOMAIN JAILBREAK_PATTERNS : Search(JAILBREAK_PATTERNS[i], message_lower)
        THEN [is_threat |-> TRUE, reason |-> Some("jailbreak")]
        ELSE IF \E i \in DOMAIN RECIPE_PATTERNS : Search(RECIPE_PATTERNS[i], message_lower)
        THEN [is_threat |-> TRUE, reason |-> Some("recipe")]
        ELSE [is_threat |-> FALSE, reason |-> None]

\* a slip: an intent that is not known goes to the transaction agent
GetTargetAgentUnknownOrders(intent) ==
    IF intent = "REJECT" THEN None
    ELSE IF intent \in {"product_inquiry", "general_question"} THEN Some("information")
    ELSE Some("transaction")

\* _get_target_agent
GetTargetAgent(intent) ==
    IF intent = "REJECT" THEN None
    ELSE IF intent \in {"product_inquiry", "general_question"} THEN Some("information")
    ELSE IF intent \in {"place_order", "create_booking"} THEN Some("transaction")
    ELSE Some("information")

\* what the classifying LLM call can do: answer a JSON object with an intent (and perhaps a
\* confidence, in hundredths), answer text that is not JSON, or fail
LlmOutcomes ==
    [kind : {"json"},
     intent : {"product_inquiry", "general_question", "place_order", "create_booking",
               "REJECT", "greeting"},
     confidence : {None, Some(90)}]
    \cup {[kind |-> "not_json", intent |-> "", confidence |-> None],
          [kind |-> "error", intent |-> "", confidence |-> None]}

\* OrchestratorAgent.process: the dict it returns
OrchestratorProcess(user_message, llm) ==
    LET security_check == SecurityPrefilter(user_message)
    IN  IF security_check.is_threat
        THEN [intent |-> Some("REJECT"), reason |-> security_check.reason,
              confidence |-> Some(100), agent |-> None]
        ELSE IF llm.kind = "json"
        THEN IF llm.confidence = None
             THEN [intent |-> Some(llm.intent), agent |-> GetTargetAgent(llm.intent)]
             ELSE [intent |-> Some(llm.intent), confidence |-> llm.confidence,
                   agent |-> GetTargetAgent(llm.intent)]
        ELSE IF llm.kind = "not_json"
        THEN [intent |-> Some("general_question"), confidence |-> Some(50),
              agent |-> Some("information"), reason |-> Some("json_parse_error")]
        ELSE [intent |-> Some("general_question"), confidence |-> Some(50),
              agent |-> Some("information"), reason |-> Some("error")]

\* the components OrchestratorAgent.process calls
OrchestratorInvokes(user_message) ==
    IF SecurityPrefilter(user_message).is_threat
    THEN << "security_prefilter" >>
    ELSE << "security_prefilter", "intent_classifier" >>

----------------------------------------------------------------------------
(* MultiAgentRouter.process_message (app/routers/multi_agent_router.py) *)

transaction_keywords ==
    {Chars(k) : k \in {"nama lengkap", "alamat", "nomor telepon", "tanggal", "waktu",
                       "jumlah", "konfirmasi pesanan"}}

\* Method 1: the last message of the history is a bot question of the workflow
HistorySignal(conversation_history) ==
    /\ Len(conversation_history) > 0
    /\ LET last_message == conversation_history[Len(conversation_history)]
       IN  /\ last_message.sender_type = "llm"
           /\ \E keyword \in transaction_keywords :
                 Contains(LowerStr(last_message.content), keyword)

\* ^(0|\+62)[0-9]{9,13}$
phone_pattern == Cat(<< Alt(<< Lit("0"), Lit("+62") >>), Rep(Digit, 9, 13) >>)

IsPhone(user_message) ==
    LET msg_lower == Strip(LowerStr(user_message))
    IN  FullMatch(phone_pattern, Without(Without(msg_lower, " "), "-"))

IsName(user_message) ==
    LET lines == SplitOn(Strip(user_message), "\n")
        first_line == Strip(lines[1])
        first_line_words == Words(first_line)
    IN  /\ Len(first_line_words) >= 2
        /\ Len(first_line_words) <= 4
        /\ \A i \in DOMAIN first_line_words : IsUpper(first_line_words[i][1])
        /\ ~ \E i \in 1..Len(first_line) : first_line[i] \in Digit

address_keywords ==
    {Chars(k) : k \in {"jl.", "jalan", "no.", "nomor", "rt", "rw", "blok", "gang", "gg.",
                       "pick up", "pickup", "ambil sendiri"}}

IsAddress(user_message) ==
    LET msg_lower == Strip(LowerStr(user_message))
    IN  \E keyword \in address_keywords : Contains(msg_lower, keyword)

IsSimpleResponse(user_message) ==
    LET all_words == Words(Strip(user_message))
    IN  Len(all_words) = 1 /\ Len(user_message) < 20

\* \d{1,2}[/-]\d{1,2}([/-]\d{2,4})?
date_pattern ==
    Cat(<< Rep(Digit, 1, 2), Rep({"/", "-"}, 1, 1), Rep(Digit, 1, 2),
           Opt(Cat(<< Rep({"/", "-"}, 1, 1), Rep(Digit, 2, 4) >>)) >>)

\* \d{1,2}[:\.]\d{2}|jam\s+\d{1,2}
time_pattern ==
    Alt(<< Cat(<< Rep(Digit, 1, 2), Rep({":", "."}, 1, 1), Rep(Digit, 2, 2) >>),
           Cat(<< Lit("jam"), Plus(Whitespace), Rep(Digit, 1, 2) >>) >>)

IsDatetime(user_message) ==
    LET msg_lower == Strip(LowerStr(user_message))
    IN  Search(date_pattern, msg_lower) \/ Search(time_pattern, msg_lower)

confirmation_keywords ==
    {Chars(k) : k \in {"ya", "iya", "ok", "oke", "benar", "betul", "tidak", "nggak", "batal",
                       "jadi"}}

IsConfirmation(user_message) ==
    LET msg_lower == Strip(LowerStr(user_message))
    IN  \E keyword \in confirmation_keywords :
           msg_lower = keyword \/ StartsWith(msg_lower, keyword \o << " " >>)

\* Method 2: the message itself looks like an answer to a workflow question
MessageSignal(user_message) ==
    \/ IsPhone(user_message)
    \/ IsName(user_message)
    \/ IsAddress(user_message)
    \/ IsSimpleResponse(user_message)
    \/ IsDatetime(user_message)
    \/ IsConfirmation(user_message)

\* a slip: the history is not looked at
TransactionInProgressByMessage(user_message, conversation_history) ==
    MessageSignal(user_message)

\* Step 1.5: transaction_in_progress
TransactionInProgress(user_message, conversation_history) ==
    HistorySignal(conversation_history) \/ MessageSignal(user_message)

\* Step 2: intent, confidence and agent_to_use
Classification(user_message, conversation_history, llm) ==
    IF TransactionInProgress(user_message, conversation_history)
    THEN [transaction_in_progress |-> TRUE, intent |-> "place_order", confidence |-> 100,
          agent_to_use |-> Some("transaction"), reason |-> None]
    ELSE LET orchestrator_result == OrchestratorProcess(user_message, llm)
         IN  [transaction_in_progress |-> FALSE,
              intent |-> orchestrator_result.intent[1],
              confidence |-> GetD(orchestrator_result, "confidence", 0)[1],
              agent_to_use |-> Get(orchestrator_result, "agent"),
              reason |-> Get(orchestrator_result, "reason")]

REFUSAL ==
    "Maaf, saya tidak dapat memproses permintaan tersebut. Silakan hubungi customer service kami untuk bantuan lebih lanjut."

\* what InformationAgent.process returns: an answer, with or without the order-intent flag
InformationOutcomes ==
    [response : {"information"}, should_reroute : BOOLEAN]
    \cup {[response |-> "information_error", should_reroute |-> FALSE]}

\* most function calls the LLM asks for in one reply
MaxToolCalls == 2

\* the functions the LLM asks for
ToolFunctions == {"get_customer_by_phone", "create_customer", "create_order", "create_booking"}

\* how the service answers a function call
ToolOutcomes == {"ok", "http_error"}

\* _execute_function: the result dict of one function call
ExecuteFunction(function_name, outcome) ==
    IF outcome = "http_error" THEN [error |-> Some("HTTP 500")]
    ELSE CASE function_name = "get_customer_by_phone" -> [customer |-> Some([id |-> "K1"])]
           [] function_name = "create_customer" -> [id |-> Some("K1")]
           [] function_name = "create_order" -> [id |-> Some("O1")]
           [] function_name = "create_booking" -> [id |-> Some("B1")]
           [] OTHER -> [error |-> Some("Unknown function")]

\* Step 5: whether a creating function is among the calls
TransactionCreated(function_calls) ==
    \E i \in DOMAIN function_calls :
        function_calls[i].function \in {"create_order", "create_booking"}

\* Step 5: the id in the result of the first creating call
TransactionId(function_calls) ==
    IF TransactionCreated(function_calls)
    THEN LET first == CHOOSE i \in DOMAIN function_calls :
                         /\ function_calls[i].function \in {"create_order", "create_booking"}
                         /\ \A j \in 1..(i - 1) :
                               function_calls[j].function \notin {"create_order", "create_booking"}
         IN  Get(function_calls[first].result, "id")
    ELSE None

\* _extract_workflow_state; result["id"] of create_customer raises KeyError on an error result
ExtractWorkflowState(function_calls) ==
    LET customers == {i \in DOMAIN function_calls :
                        \/ function_calls[i].function = "create_customer"
                        \/ /\ function_calls[i].function = "get_customer_by_phone"
                           /\ Get(function_calls[i].result, "customer") # None}
        last == CHOOSE i \in customers : \A j \in customers : j <= i
        Called(f) == \E i \in DOMAIN function_calls : function_calls[i].function = f
    IN  IF \E i \in DOMAIN function_calls :
              /\ function_calls[i].function = "create_customer"
              /\ ~Has(function_calls[i].result, "id")
        THEN [raised |-> TRUE, value |-> EmptyDict]
        ELSE [raised |-> FALSE,
              value |-> [customer_id |-> IF customers = {} THEN None
                                         ELSE IF function_calls[last].function = "create_customer"
                                         THEN function_calls[last].result.id
                                         ELSE Some(function_calls[last].result.customer[1].id),
                         customer_exists |-> customers # {},
                         products_validated |-> Called("get_product_by_name"),
                         order_created |-> Called("create_order"),
                         booking_created |-> Called("create_booking")]]

\* the except branch of TransactionAgent.process
TransactionFailed ==
    [response |-> "transaction_error", workflow_state |-> EmptyDict,
     transaction_created |-> FALSE, transaction_id |-> None, function_calls |-> << >>]

\* TransactionAgent.process: llm.first and llm.final tell whether the two LLM calls
\* succeed, llm.tool_calls are the functions the first reply asks for and how they go
TransactionAgentProcess(llm) ==
    LET function_calls ==
            [i \in DOMAIN llm.tool_calls |->
                [function |-> llm.tool_calls[i].function,
                 result |-> ExecuteFunction(llm.tool_calls[i].function,
                                            llm.tool_calls[i].outcome)]]
        workflow_state == ExtractWorkflowState(function_calls)
    IN  IF \/ llm.first = "error"
           \/ llm.tool_calls # << >> /\ llm.final = "error"
           \/ workflow_state.raised
        THEN TransactionFailed
        ELSE [response |-> "transaction", workflow_state |-> workflow_state.value,
              transaction_created |-> TransactionCreated(function_calls),
              transaction_id |-> TransactionId(function_calls),
              function_calls |-> function_calls]

\* the replies of the LLM to the transaction agent
ToolCallRuns ==
    UNION {[1..n -> [function : ToolFunctions, outcome : ToolOutcomes]] : n \in 0..MaxToolCalls}

TransactionLlm ==
    [first : {"ok", "error"}, final : {"ok", "error"}, tool_calls : ToolCallRuns]

\* what TransactionAgent.process returns
TransactionOutcomes == {TransactionAgentProcess(llm) : llm \in TransactionLlm}

\* _handle_information_agent
HandleInformationAgent(info) ==
    [response |-> << info.response >>, agent_used |-> "information",
     transaction_created |-> FALSE, transaction_id |-> None, function_calls |-> << >>,
     should_reroute |-> info.should_reroute, metadata |-> EmptyDict]

\* _handle_transaction_agent
HandleTransactionAgent(outlet_id, original_response, txn) ==
    IF outlet_id = None
    THEN [response |-> << "Maaf, terjadi kesalahan konfigurasi. Silakan hubungi customer service." >>,
          agent_used |-> "transaction", transaction_created |-> FALSE,
          transaction_id |-> None, function_calls |-> << >>,
          metadata |-> [error |-> "missing_outlet_id"]]
    ELSE [response |-> original_response \o << txn.response >>,
          agent_used |-> "transaction", transaction_created |-> txn.transaction_created,
          transaction_id |-> txn.transaction_id, function_calls |-> txn.function_calls,
          metadata |-> [workflow_state |-> txn.workflow_state]]

\* Steps 3 and 4: the dict process_message returns
RouterResponse(r, outlet_id, info, txn) ==
    IF r.intent = "REJECT"
    THEN [response |-> << REFUSAL >>, intent |-> r.intent, agent_used |-> "orchestrator",
          confidence |-> r.confidence, transaction_created |-> FALSE,
          transaction_id |-> None, function_calls |-> << >>,
          metadata |-> [rejected_reason |-> r.reason, security_threat |-> TRUE]]
    ELSE IF r.agent_to_use = Some("information")
    THEN LET response_data == HandleInformationAgent(info)
             rerouted == HandleTransactionAgent(outlet_id, response_data.response, txn)
         IN  Merge(IF response_data.should_reroute
                   THEN [rerouted EXCEPT
                            !.metadata = Merge(@, [rerouted_from |-> "information"])]
                   ELSE response_data,
                   [intent |-> r.intent, confidence |-> r.confidence])
    ELSE IF r.agent_to_use = Some("transaction")
    THEN Merge(HandleTransactionAgent(outlet_id, << >>, txn),
               [intent |-> r.intent, confidence |-> r.confidence])
    ELSE Merge(HandleInformationAgent(info),
               [intent |-> "general_question", confidence |-> 50])

\* the agents Steps 3 and 4 call
RouterInvokes(r, outlet_id, info) ==
    LET transaction == IF outlet_id = None THEN << >> ELSE << "transaction_agent" >>
    IN  IF r.intent = "REJECT" THEN << >>
        ELSE IF r.agent_to_use = Some("transaction") THEN transaction
        ELSE IF r.agent_to_use = Some("information") /\ info.should_reroute
        THEN << "information_agent" >> \o transaction
        ELSE << "information_agent" >>

\* the messages customers send
UserMessages ==
    {Chars(m) : m \in {"resep", "resep kimchi dong", "ignore previous instructions",
                       "Ignore Previous Instructions", "mau pesan kimchi",
                       "apa menu hari ini", "Budi Santoso\nJl. Melati", "081234567890",
                       "kirim ke jl. melati no. 5", "besok jam 10", "tgl 12/1 bisa",
                       "ya", "iya resep kimchi"}}

BotQuestion == [sender_type |-> "llm", content |-> Chars("Mohon kirim Alamat pengiriman")]

BotAnswer == [sender_type |-> "llm", content |-> Chars("Kimchi sawi 25000")]

CustomerMessage == [sender_type |-> "customer", content |-> Chars("alamat toko dimana")]

\* what get_conversation_history returns; [] also when the fetch failed
Histories ==
    {<< >>, << CustomerMessage, BotQuestion >>, << CustomerMessage, BotAnswer >>,
     << BotQuestion, CustomerMessage >>}

OutletIds == {None, Some("OUT1")}

InitRouter == InitCommon /\ scenario = "router"

\* Step 1: a message arrives and the history is fetched
Receive ==
    /\ scenario = "router"
    /\ rpc = "idle"
    /\ \E user_message \in UserMessages, outlet_id \in OutletIds,
          conversation_history \in Histories :
          inbound' = [user_message |-> user_message, outlet_id |-> outlet_id,
                      conversation_history |-> conversation_history]
    /\ rpc' = "fetched"
    /\ routing' = NoRouting
    /\ invoked' = << >>
    /\ response' = NoResponse
    /\ UNCHANGED <<flowVars, turns, orders, scenario>>

\* Steps 1.5 and 2: continuation detection, then the Orchestrator unless it is skipped
Classify ==
    /\ rpc = "fetched"
    /\ \E llm \in LlmOutcomes :
          routing' = Classification(inbound.user_message, inbound.conversation_history, llm)
    /\ invoked' = IF TransactionInProgress(inbound.user_message, inbound.conversation_history)
                  THEN << >>
                  ELSE OrchestratorInvokes(inbound.user_message)
    /\ rpc' = "classified"
    /\ UNCHANGED <<flowVars, turns, orders, inbound, response, scenario>>

\* Steps 3 and 4: refuse, or hand the message to the agent chosen, and return
Dispatch ==
    /\ rpc = "classified"
    /\ \E info \in InformationOutcomes, txn \in TransactionOutcomes :
          /\ response' = RouterResponse(routing, inbound.outlet_id, info, txn)
          /\ invoked' = invoked \o RouterInvokes(routing, inbound.outlet_id, info)
    /\ rpc' = "idle"
    /\ UNCHANGED <<flowVars, turns, orders, inbound, routing, scenario>>

NextRouter == Receive \/ Classify \/ Dispatch

SpecRouter == InitRouter /\ [][NextRouter]_vars

\* the engine and the router, each on its own requests
InitCore == InitCommon /\ scenario \in {"single", "router"}

NextCore == Next \/ NextRouter

SpecCore == InitCore /\ [][NextCore]_vars

----------------------------------------------------------------------------
(* Properties *)

\* the create_order calls a request made
OrderCalls(w) == {i \in DOMAIN calls[w] : calls[w][i].fn = "create_order"}

\* the calls of a request to a critical service that failed
FailedCritical(w) ==
    {i \in DOMAIN calls[w] :
        calls[w][i].fn \in {"create_order", "create_customer"} /\ ~calls[w][i].ok}

\* the entities of a message
EntitiesOf(m) == m.intent_data.entities[1]

\* C3: a CONFIRM_ORDER message processed against the state a successful
\* confirmation left behind (the cleared state, or the returned COMPLETED
\* state as stored) makes no order-creation call.
C3_ConfirmationIdempotent ==
    \A w \in Requests :
        (/\ pc[w] = "computed"
         /\ handler[w] = "_handle_confirmation"
         /\ (loaded[w] = EmptyDict \/ Get(loaded[w], "current_step") = Some(COMPLETED)))
        => OrderCalls(w) = {}

C3_Witness ==
    \E w \in Requests :
        /\ pc[w] = "computed"
        /\ handler[w] = "_handle_confirmation"
        /\ loaded[w] = [current_step |-> Some(COMPLETED), order |-> Some(CreatedOrder)]
        /\ result[w].error = Some("KeyError")
        /\ calls[w] = << >>

\* C7: when order creation or customer creation fails, the result is
\* SHOW_ERROR with new_state equal to the input state, which is not COMPLETED
\* and has gained no order field.
C7_CriticalFailureKeepsState ==
    \A w \in Requests :
        (pc[w] = "computed" /\ FailedCritical(w) # {})
        => /\ result[w].action = "SHOW_ERROR"
           /\ result[w].new_state = loaded[w]
           /\ Get(result[w].new_state, "current_step") # Some(COMPLETED)
           /\ Get(result[w].new_state, "order") = Get(loaded[w], "order")

C7_Witness ==
    \E w \in Requests :
        /\ pc[w] = "computed"
        /\ \E i \in FailedCritical(w) : calls[w][i].fn = "create_order"
        /\ Get(loaded[w], "current_step") = Some(AWAITING_CONFIRMATION)
        /\ Has(loaded[w], "address")
        /\ result[w].error = Some("Failed to create order")

\* C8: the product_id of every order-creation call is the id of the product
\* the lookup most recently resolved and the engine stored in state.product.
C8_OrderUsesResolvedProduct ==
    \A w \in Requests :
        pc[w] = "computed"
        => \A i \in OrderCalls(w) :
              /\ calls[w][i].args.items[1].product_id = resolved
              /\ calls[w][i].args.items[1].product_id = loaded[w].product[1].id
              /\ resolved \in {ProductSawi.id, ProductLobak.id}

C8_Witness ==
    \E w \in Requests :
        /\ pc[w] = "computed"
        /\ result[w].action = "SHOW_ORDER_SUCCESS"
        /\ \E i \in OrderCalls(w) : calls[w][i].args.items[1].product_id = ProductLobak.id
        /\ Has(loaded[w], "order")

\* C9: in AWAITING_ADDRESS a PROVIDE_ADDRESS message whose address is absent
\* or shorter than 10 characters yields the validation error and the input
\* state; an address of 10 or more characters is stored and the state advances
\* to AWAITING_CONFIRMATION with ASK_CONFIRMATION.
C9_AddressValidation ==
    \A w \in Requests :
        (pc[w] = "loaded" /\ Get(loaded[w], "current_step") = Some(AWAITING_ADDRESS))
        => \A m \in Inbox :
              Get(m.intent_data, "sub_intent") = Some("PROVIDE_ADDRESS")
              => LET address == Get(EntitiesOf(m), "address")
                     r == Process(m.intent_data, Context, loaded[w], m.user_message, ExtOk)
                 IN  IF address = None \/ Len(address[1]) < 10
                     THEN /\ r.action = "SHOW_ERROR"
                          /\ r.error = Some("Address too short")
                          /\ r.new_state = loaded[w]
                     ELSE /\ r.action = "ASK_CONFIRMATION"
                          /\ r.new_state = Merge(loaded[w],
                                [address |-> address,
                                 current_step |-> Some(AWAITING_CONFIRMATION)])

C9_Witness ==
    \E w \in Requests :
        /\ pc[w] = "computed"
        /\ handler[w] = "_handle_address"
        /\ Get(loaded[w], "current_step") = Some(AWAITING_ADDRESS)
        /\ result[w].action = "ASK_CONFIRMATION"
        /\ Len(result[w].new_state.address[1]) = 10
        /\ Get(result[w].new_state, "current_step") = Some(AWAITING_CONFIRMATION)

\* C10: with a resolved product and a known customer in the state, a
\* PROVIDE_DELIVERY_METHOD message carrying quantity and delivery_method sets
\* both and total_price = product.price * quantity in one transition; pickup
\* goes to AWAITING_CONFIRMATION with ASK_CONFIRMATION, delivery to
\* AWAITING_ADDRESS with ASK_ADDRESS.
C10_QuantityAndDeliveryTogether ==
    \A w \in Requests :
        (pc[w] = "loaded" /\ Has(loaded[w], "product") /\ Has(loaded[w], "customer"))
        => \A m \in Inbox :
              (/\ Get(m.intent_data, "sub_intent") = Some("PROVIDE_DELIVERY_METHOD")
               /\ Get(EntitiesOf(m), "quantity") # None
               /\ Get(EntitiesOf(m), "delivery_method") # None)
              => LET q == Get(EntitiesOf(m), "quantity")
                     dm == Get(EntitiesOf(m), "delivery_method")
                     r == Process(m.intent_data, Context, loaded[w], m.user_message, ExtOk)
                 IN  /\ Get(r.new_state, "quantity") = q
                     /\ Get(r.new_state, "delivery_method") = dm
                     /\ Get(r.new_state, "total_price")
                            = Some(loaded[w].product[1].price[1] * q[1])
                     /\ dm = Some("pickup")
                            => /\ Get(r.new_state, "current_step") = Some(AWAITING_CONFIRMATION)
                               /\ r.action = "ASK_CONFIRMATION"
                     /\ dm = Some("delivery")
                            => /\ Get(r.new_state, "current_step") = Some(AWAITING_ADDRESS)
                               /\ r.action = "ASK_ADDRESS"

C10_Witness ==
    \E w \in Requests :
        /\ pc[w] = "computed"
        /\ handler[w] = "_handle_delivery_method"
        /\ Has(loaded[w], "product") /\ Has(loaded[w], "customer")
        /\ Get(loaded[w], "current_step") = Some(AWAITING_DELIVERY_METHOD)
        /\ Get(loaded[w], "quantity") = Some(1)
        /\ Get(result[w].new_state, "quantity") = Some(2)
        /\ Get(result[w].new_state, "total_price") = Some(50000)
        /\ Get(result[w].new_state, "delivery_method") = Some("pickup")
        /\ result[w].action = "ASK_CONFIRMATION"

\* a request's save has just happened in this step
Saved(w) == pc[w] = "computed" /\ pc'[w] = "idle"

\* C2: of two overlapping requests of a conversation, the one whose read has
\* been overwritten since does not write: a save of an AWAITING_ADDRESS state
\* computed from an older read leaves a newer COMPLETED record as it is.
C2_NoStaleWrite ==
    [][\A w \in Requests :
          (/\ Saved(w)
           /\ loaded[w] # GetWorkflowState(store, FALSE).value
           /\ Get(result[w].new_state, "current_step") = Some(AWAITING_ADDRESS)
           /\ Get(GetWorkflowState(store, FALSE).value, "current_step") = Some(COMPLETED))
          => store' = store]_vars

\* C4: persisting the new_state of a terminal step (COMPLETED or FAILED)
\* deletes the stored record: the next get returns the empty state.
C4_TerminalStateDeleted ==
    [][\A w \in Requests :
          (/\ Saved(w)
           /\ Get(result[w].new_state, "current_step") \in {Some(COMPLETED), Some(FAILED)}
           /\ redis'[w].save = "ok")
          => GetWorkflowState(store', FALSE).value = EmptyDict]_vars

\* C5: after confirmation=false in AWAITING_CONFIRMATION, persisting the
\* returned new_state leaves a store whose next get returns the empty state.
C5_CancellationClearsStore ==
    [][\A w \in Requests :
          (/\ Saved(w)
           /\ Get(loaded[w], "current_step") = Some(AWAITING_CONFIRMATION)
           /\ handler[w] = "_handle_confirmation"
           /\ result[w].error = Some("Order cancelled by customer")
           /\ redis'[w].save = "ok")
          => GetWorkflowState(store', FALSE).value = EmptyDict]_vars

\* C6: a Redis failure during get_workflow_state or save_workflow_state
\* reaches the caller as an error.
C6_StoreFailureSurfaced ==
    \A w \in Requests :
        (redis[w].get = "error" \/ redis[w].save = "error") => redis[w].raised

\* C1: a message matching a jailbreak or recipe pattern always gets the fixed
\* refusal: intent REJECT, the refusal text, no information or transaction
\* agent invoked, whatever the continuation heuristics say of it.
C1_ThreatAlwaysRefused ==
    (/\ rpc = "idle"
     /\ response # NoResponse
     /\ SecurityPrefilter(inbound.user_message).is_threat)
    => /\ response.intent = "REJECT"
       /\ response.response = << REFUSAL >>
       /\ \A i \in DOMAIN invoked : invoked[i] \notin {"information_agent", "transaction_agent"}

\* the order entities of a message
OrderEntityKeys == {"product_name", "quantity", "delivery_method", "address"}

\* C11: in every branch of process that accepts the message, every order
\* entity present in it (product_name, quantity, delivery_method, address)
\* has its value in new_state after that same call.
C11_AllEntitiesApplied ==
    \A w \in Requests :
        pc[w] = "loaded"
        => \A m \in Inbox \cup CombinedMessages :
              LET r == Process(m.intent_data, Context, loaded[w], m.user_message, ExtOk)
              IN  r.error = None
                  => \A k \in OrderEntityKeys :
                        Get(EntitiesOf(m), k) # None
                        => Get(r.new_state, k) = Get(EntitiesOf(m), k)

\* C12: a NEW_ORDER whose product lookup returns no exact match, the failed
\* lookup included, yields SHOW_PRODUCT_NOT_FOUND with the suggestions the
\* lookup supplied, and new_state equal to the input state.
C12_NotFoundKeepsState ==
    \A w \in Requests :
        pc[w] = "loaded"
        => \A m \in Inbox, ext \in ExtOutcomes("_handle_new_order") :
              LET product_name == Get(EntitiesOf(m), "product_name")
                  lookup == SearchProduct(product_name[1], Context.outlet_id,
                                          Context.tenant_id, ext)
                  r == Process(m.intent_data, Context, loaded[w], m.user_message, ext)
              IN  (/\ Route(m.intent_data, loaded[w]) = "_handle_new_order"
                   /\ TruthyStr(product_name)
                   /\ ~TruthyBool(Get(lookup, "exact_match")))
                  => /\ r.action = "SHOW_PRODUCT_NOT_FOUND"
                     /\ r.data.suggestions = lookup.suggestions
                     /\ r.new_state = loaded[w]
                     /\ r.error = None

C12_Witness ==
    \E w \in Requests :
        /\ pc[w] = "computed"
        /\ handler[w] = "_handle_new_order"
        /\ result[w].action = "SHOW_PRODUCT_NOT_FOUND"
        /\ result[w].data.suggestions = Some(<< ProductSawi, ProductLobak >>)
        /\ Get(loaded[w], "current_step") = Some(AWAITING_DELIVERY_METHOD)
        /\ Has(loaded[w], "product")
        /\ result[w].new_state = loaded[w]

\* the sub_intents process has a branch for
KnownSubIntents ==
    {Some("WANT_TO_ORDER"), Some("NEW_ORDER"), Some("PROVIDE_DELIVERY_METHOD"),
     Some("PROVIDE_ADDRESS"), Some("CONFIRM_ORDER")}

C14_RouterPersistsState ==
    (/\ scenario = "router"
     /\ rpc = "idle"
     /\ \E i \in DOMAIN invoked : invoked[i] = "transaction_agent")
    => LET returned == response.metadata.workflow_state
       IN  store = SaveWorkflowState(store, returned, FALSE).data

\* how many times a component was called
Count(seq, x) == Cardinality({i \in DOMAIN seq : seq[i] = x})

\* the agent_used of a response dispatched on a classification
DispatchedOn(r) ==
    IF r.intent = "REJECT" THEN {"orchestrator"}
    ELSE IF r.agent_to_use = Some("information") THEN {"information", "transaction"}
    ELSE IF r.agent_to_use = Some("transaction") THEN {"transaction"}
    ELSE {"information"}

\* C15: when the last bot message holds a workflow keyword, or the message is a
\* phone number, a name, an address, a single word, a date or time, or a
\* confirmation, the request goes to the transaction handler and the Orchestrator
\* is never called; otherwise the Orchestrator is called exactly once and the
\* request is dispatched on what it returned.
C15_ContinuationSkipsClassifier ==
    /\ (scenario = "router" /\ rpc = "classified")
       => LET m == inbound.user_message
          IN  IF \/ HistorySignal(inbound.conversation_history)
                 \/ IsPhone(m) \/ IsName(m) \/ IsAddress(m)
                 \/ IsSimpleResponse(m) \/ IsDatetime(m) \/ IsConfirmation(m)
              THEN /\ routing.transaction_in_progress
                   /\ invoked = << >>
                   /\ routing.agent_to_use = Some("transaction")
              ELSE /\ ~routing.transaction_in_progress
                   /\ Count(invoked, "security_prefilter") = 1
                   /\ Count(invoked, "intent_classifier") <= 1
                   /\ \E llm \in LlmOutcomes :
                         LET o == OrchestratorProcess(m, llm)
                         IN  /\ routing.intent = o.intent[1]
                             /\ routing.agent_to_use = Get(o, "agent")
    /\ (scenario = "router" /\ rpc = "idle" /\ response # NoResponse)
       => IF routing.transaction_in_progress
          THEN /\ Count(invoked, "security_prefilter") = 0
               /\ Count(invoked, "intent_classifier") = 0
               /\ Count(invoked, "information_agent") = 0
               /\ response.agent_used = "transaction"
               /\ inbound.outlet_id # None => invoked = << "transaction_agent" >>
          ELSE /\ Count(invoked, "security_prefilter") = 1
               /\ Count(invoked, "intent_classifier") <= 1
               /\ response.agent_used \in DispatchedOn(routing)
               /\ response.agent_used = "transaction" /\ routing.agent_to_use # Some("transaction")
                  => Get(response.metadata, "rerouted_from") = "information"

\* a question that is no signal by itself, sent after a bot question of the workflow
C15_Witness ==
    /\ scenario = "router"
    /\ rpc = "idle"
    /\ response # NoResponse
    /\ inbound.user_message = Chars("apa menu hari ini")
    /\ inbound.conversation_history = << CustomerMessage, BotQuestion >>
    /\ inbound.outlet_id # None
    /\ routing.transaction_in_progress
    /\ invoked = << "transaction_agent" >>
    /\ response.agent_used = "transaction"

\* the intents _get_target_agent names
KnownIntents == {"product_inquiry", "general_question", "place_order", "create_booking", "REJECT"}

ActionValues ==
    {"ASK_NAME", "ASK_PRODUCT", "ASK_DELIVERY_METHOD", "ASK_ADDRESS", "ASK_CONFIRMATION",
     "SHOW_PRODUCT_NOT_FOUND", "SHOW_ORDER_SUCCESS", "SHOW_ERROR"}

\* the replies the agents and the router fall back to when something failed
FailureReplies ==
    {"information_error", "transaction_error",
     "Maaf, terjadi kesalahan konfigurasi. Silakan hubungi customer service."}

-----------------------------------------------------------------------------
(* ResponseGenerator (app/agents/response_generator.py); a text is the sequence of its parts *)

\* a non-empty str
TruthyText(text) == \E i \in DOMAIN text : text[i] # ""

\* str(data.get('order_id', '')) inside the f-string
OrderIdText(data) ==
    IF ~Has(data, "order_id") THEN ""
    ELSE IF data.order_id = None THEN "None" ELSE data.order_id[1]

\* the dict of _get_fallback_template
fallback_messages(data) ==
    [ASK_NAME |-> << "Boleh tau nama kamu siapa kak?" >>,
     ASK_PRODUCT |-> << "Siap kak! Mau order produk apa ya?" >>,
     ASK_ADDRESS |-> << "Oke kak! Alamat lengkapnya dimana ya?" >>,
     ASK_DELIVERY_METHOD |-> << "Mau pick up atau dikirim kak?" >>,
     ASK_CONFIRMATION |-> << "Pesanan sudah benar kak?" >>,
     SHOW_ORDER_SUCCESS |-> << "Siap kak! Pesanan #", OrderIdText(data), " sudah kami terima ya" >>,
     SHOW_ERROR |-> IF ~Has(data, "message")
                    THEN << "Maaf kak, ada kendala nih. Bisa coba lagi ya?" >>
                    ELSE IF data.message = None THEN << >> ELSE << data.message[1] >>]

\* _get_fallback_template: fallback_messages.get(action)
GetFallbackTemplate(action, data) ==
    IF action \in DOMAIN fallback_messages(data)
    THEN Some(fallback_messages(data)[action])
    ELSE None

\* generate: the LLM text, else the template, else the generic apology
Generate(action, data, llm_response) ==
    LET template_response == GetFallbackTemplate(action, data)
    IN  IF /\ llm_response # None
           /\ TruthyText(llm_response[1])
           /\ llm_response[1][1] # "Maaf kak, ada kendala"
        THEN llm_response[1]
        ELSE IF template_response # None /\ TruthyText(template_response[1])
        THEN template_response[1]
        ELSE << "Maaf kak, ada kendala teknis nih. Bisa coba lagi ya?" >>

\* C18: the fallback table has a template for the action of every result the
\* engine returns, and when the NLG call failed or returned an empty text,
\* generate returns that template, a non-empty text.
C18_FallbackCoversActions ==
    \A w \in Requests :
        pc[w] = "computed"
        => \A llm_response \in {None, Some(<< "" >>)} :
              LET template_response == GetFallbackTemplate(result[w].action, result[w].data)
              IN  /\ template_response # None
                  /\ Generate(result[w].action, result[w].data, llm_response)
                        = template_response[1]
                  /\ TruthyText(Generate(result[w].action, result[w].data, llm_response))

\* C19: the response reports transaction_created exactly when a create_order or
\* create_booking call of the request returned a created record (no error
\* result), and then transaction_id is the id of that record.
C19_CreatedMeansCreated ==
    (scenario = "router" /\ rpc = "idle" /\ response # NoResponse)
    => LET function_calls == response.function_calls
           created == {i \in DOMAIN function_calls :
                          /\ function_calls[i].function \in {"create_order", "create_booking"}
                          /\ ~Has(function_calls[i].result, "error")}
       IN  /\ response.transaction_created = (created # {})
           /\ response.transaction_created
              => /\ response.transaction_id # None
                 /\ \E i \in created : response.transaction_id = function_calls[i].result.id

\* C20: when the classification chose the Information agent and its answer asks
\* for re-routing, the transaction agent is called after it on the same message
\* and the response has agent_used transaction, rerouted_from information, the
\* Information answer followed by the transaction answer, and the classifier's
\* intent; when the answer does not ask for it, the transaction agent is not called.
C20_RerouteAppendsTransaction ==
    (/\ scenario = "router" /\ rpc = "idle" /\ response # NoResponse
     /\ ~routing.transaction_in_progress
     /\ routing.intent # "REJECT"
     /\ routing.agent_to_use = Some("information"))
    => /\ response.intent = routing.intent
       /\ response.agent_used \in {"information", "transaction"}
       /\ response.agent_used = "information"
          => /\ response.should_reroute = FALSE
             /\ Count(invoked, "information_agent") = 1
             /\ Count(invoked, "transaction_agent") = 0
             /\ ~Has(response.metadata, "rerouted_from")
       /\ response.agent_used = "transaction"
          => /\ Get(response.metadata, "rerouted_from") = "information"
             /\ SubSeq(invoked, Len(invoked) - 1, Len(invoked))
                   = << "information_agent", "transaction_agent" >>
             /\ Len(response.response) = 2
             /\ response.response[1] \in {info.response : info \in InformationOutcomes}
             /\ response.response[2] \in {txn.response : txn \in TransactionOutcomes}

\* C21: with no active workflow (current_step absent or the initial one), a
\* WANT_TO_ORDER message without a product entity yields ASK_PRODUCT and a new
\* state whose current_step is AWAITING_PRODUCT.
C21_WantToOrderAwaitsProduct ==
    \A w \in Requests :
        pc[w] = "loaded"
        => \A m \in Inbox :
              LET r == Process(m.intent_data, Context, loaded[w], m.user_message, ExtOk)
              IN  (/\ Get(loaded[w], "current_step") \in {None, Some(INIT)}
                   /\ Get(m.intent_data, "sub_intent") = Some("WANT_TO_ORDER")
                   /\ Get(EntitiesOf(m), "product_name") = None)
                  => /\ r.action = "ASK_PRODUCT"
                     /\ Get(r.new_state, "current_step") = Some(AWAITING_PRODUCT)

\* C22: a NEW_ORDER message (outside AWAITING_NAME) whose product resolves
\* exactly at price p and whose quantity is q: with no customer found the
\* result is ASK_NAME and the step AWAITING_NAME; with a known customer and no
\* delivery method it is ASK_DELIVERY_METHOD with total_price p * q and the step
\* AWAITING_DELIVERY_METHOD; with pickup the step is AWAITING_CONFIRMATION and
\* with delivery AWAITING_ADDRESS.
C22_NewOrderBranches ==
    \A w \in Requests :
        pc[w] = "loaded"
        => \A m \in Inbox, ext \in ExtOutcomes("_handle_new_order") :
              LET e == EntitiesOf(m)
                  product_name == Get(e, "product_name")
                  q == Get(e, "quantity")
                  dm == Get(e, "delivery_method")
                  lookup == SearchProduct(product_name[1], Context.outlet_id, Context.tenant_id, ext)
                  p == lookup.product[1].price[1]
                  customer == GetCustomer(Context.customer_phone, Context.tenant_id, ext)
                  r == Process(m.intent_data, Context, loaded[w], m.user_message, ext)
                  step == Get(r.new_state, "current_step")
              IN  (/\ Get(m.intent_data, "sub_intent") = Some("NEW_ORDER")
                   /\ Get(loaded[w], "current_step") # Some(AWAITING_NAME)
                   /\ TruthyStr(product_name)
                   /\ q # None
                   /\ TruthyBool(Get(lookup, "exact_match")))
                  => IF customer = None
                     THEN r.action = "ASK_NAME" /\ step = Some(AWAITING_NAME)
                     ELSE /\ r.new_state.total_price = Some(p * q[1])
                          /\ r.data.total_price = Some(p * q[1])
                          /\ dm = None => /\ r.action = "ASK_DELIVERY_METHOD"
                                          /\ step = Some(AWAITING_DELIVERY_METHOD)
                          /\ dm = Some("pickup") => step = Some(AWAITING_CONFIRMATION)
                          /\ dm = Some("delivery") => step = Some(AWAITING_ADDRESS)

\* two kimchi sawi at 25000 for a known customer: the total asked about is 50000
C22_Witness ==
    \E w \in Requests :
        /\ pc[w] = "computed"
        /\ handler[w] = "_handle_new_order"
        /\ result[w].action = "ASK_DELIVERY_METHOD"
        /\ result[w].data.total_price = Some(50000)
        /\ result[w].new_state.quantity = Some(2)
        /\ result[w].new_state.product = Some(ProductSawi)
        /\ result[w].new_state.current_step = Some(AWAITING_DELIVERY_METHOD)

\* C23: in AWAITING_NAME every message is taken as the customer's name: when
\* the trimmed text has fewer than 3 characters the result is an error with the
\* state unchanged and no customer is created; otherwise, the customer service
\* answering, the customer is created from that text and the step becomes
\* AWAITING_CONFIRMATION, AWAITING_ADDRESS or AWAITING_DELIVERY_METHOD as the
\* stored delivery_method is pickup, delivery or absent.
C23_AnyMessageIsTheName ==
    \A w \in Requests :
        (pc[w] = "loaded" /\ Get(loaded[w], "current_step") = Some(AWAITING_NAME))
        => \A m \in Inbox :
              LET r == Process(m.intent_data, Context, loaded[w], m.user_message, ExtOk)
                  customer_name == Strip(m.user_message)
                  stored == Get(loaded[w], "delivery_method")
                  created == {i \in DOMAIN r.calls : r.calls[i].fn = "create_customer"}
              IN  IF Len(customer_name) < 3
                  THEN /\ r.action = "SHOW_ERROR"
                       /\ r.new_state = loaded[w]
                       /\ created = {}
                  ELSE /\ Cardinality(created) = 1
                       /\ \A i \in created : r.calls[i].args.customer_name = Some(customer_name)
                       /\ Get(r.new_state, "current_step")
                             = IF stored = Some("pickup") THEN Some(AWAITING_CONFIRMATION)
                               ELSE IF stored = Some("delivery") THEN Some(AWAITING_ADDRESS)
                               ELSE Some(AWAITING_DELIVERY_METHOD)

\* C24: a request makes an order-creation call only when the stored
\* current_step it loaded is AWAITING_CONFIRMATION.
C24_OrderOnlyFromConfirmation ==
    \A w \in Requests :
        (pc[w] = "computed" /\ OrderCalls(w) # {})
        => Get(loaded[w], "current_step") = Some(AWAITING_CONFIRMATION)

\* the text of a str value, "" for None
TextOf(v) == IF v = None THEN << >> ELSE v[1]

\* C25: every order-creation call whose fulfillment_type is delivery carries a
\* customer_address of at least 10 characters.
C25_DeliveryOrderHasAddress ==
    \A w \in Requests :
        pc[w] = "computed"
        => \A i \in OrderCalls(w) :
              calls[w][i].args.fulfillment_type = Some("delivery")
              => Len(TextOf(calls[w][i].args.customer_address)) >= 10

\* C26: in every state process returns in which product, quantity and
\* total_price are all present, total_price = product.price * quantity.
C26_TotalPriceIsPriceTimesQuantity ==
    \A w \in Requests :
        pc[w] = "computed"
        => LET s == result[w].new_state
           IN  (/\ Get(s, "product") # None
                /\ Get(s, "quantity") # None
                /\ Get(s, "total_price") # None)
               => s.total_price[1] = PriceOf(s.product) * s.quantity[1]

\* C27: the quantity of every state process returns, and of every
\* order-creation call, is a positive integer.
C27_QuantityPositive ==
    \A w \in Requests :
        pc[w] = "computed"
        => /\ Has(result[w].new_state, "quantity")
              => /\ result[w].new_state.quantity # None
                 /\ result[w].new_state.quantity[1] >= 1
           /\ \A i \in OrderCalls(w) :
                 /\ calls[w][i].args.items[1].quantity # None
                 /\ calls[w][i].args.items[1].quantity[1] >= 1

\* the place of a current_step on the path of an order
StepRank(step) ==
    CASE step \in {None, Some(INIT)} -> 0
      [] step \in {Some(AWAITING_NAME), Some(AWAITING_PRODUCT)} -> 1
      [] step = Some(AWAITING_DELIVERY_METHOD) -> 2
      [] step = Some(AWAITING_ADDRESS) -> 3
      [] step = Some(AWAITING_CONFIRMATION) -> 4
      [] OTHER -> 5

\* C28: a message that is not a new order and not a cancellation never moves
\* current_step backwards along AWAITING_NAME / AWAITING_PRODUCT,
\* AWAITING_DELIVERY_METHOD, AWAITING_ADDRESS, AWAITING_CONFIRMATION, COMPLETED.
C28_StepNeverMovesBack ==
    \A w \in Requests :
        (/\ pc[w] = "computed"
         /\ handler[w] # "_handle_new_order"
         /\ result[w].error # Some("Order cancelled by customer")
         /\ Get(result[w].new_state, "current_step") # Some(FAILED))
        => StepRank(Get(loaded[w], "current_step"))
              <= StepRank(Get(result[w].new_state, "current_step"))

\* C29: a CONFIRM_ORDER message whose confirmation entity is absent, received
\* in AWAITING_CONFIRMATION, creates no order and leaves the state unchanged;
\* only confirmation = false cancels.
C29_AbsentConfirmationKeepsState ==
    \A w \in Requests :
        (pc[w] = "loaded" /\ Get(loaded[w], "current_step") = Some(AWAITING_CONFIRMATION))
        => \A m \in Inbox, ext \in ExtOutcomes("_handle_confirmation") :
              LET r == Process(m.intent_data, Context, loaded[w], m.user_message, ext)
              IN  (/\ Get(m.intent_data, "sub_intent") = Some("CONFIRM_ORDER")
                   /\ Get(EntitiesOf(m), "confirmation") = None)
                  => /\ r.new_state = loaded[w]
                     /\ \A i \in DOMAIN r.calls : r.calls[i].fn # "create_order"

----------------------------------------------------------------------------
(* The dialogue of a customer who answers every question *)

\* the workflow of the conversation is stored as completed
Completed == store # None /\ Get(store[1], "current_step") = Some(COMPLETED)

\* C30: from an empty state, when every message answers the question just asked
\* with valid data and every call succeeds, the workflow reaches COMPLETED with
\* exactly one order created, after at most five messages, for pickup and
\* delivery, for known and unknown customers
C30_ProgressToCompletion ==
    /\ [](turns <= 5 /\ orders <= 1 /\ (Completed => orders = 1))
    /\ <>Completed

\* the longest dialogue, an unknown customer's delivery order (product, name,
\* method, address, yes), is completed with its fifth message and one order
C30_Witness ==
    /\ scenario = "dialogue"
    /\ Completed
    /\ turns = 5
    /\ orders = 1

====
